---- MODULE Spec2Model ----
(***************************************************************************)
(* Loquat signature scheme (loquat-vc): Legendre PRF, Merkle commitment,   *)
(* Loquat sign/verify and its ring and aggregate extensions.               *)
(*                                                                         *)
(* Scaling.  The source works over P = 2^127 - 1 in u128 words, with 8-bit *)
(* bytes and SHA3-256.  The model keeps the shape and shrinks the widths:  *)
(* P = 2^FieldBits - 1 is again a Mersenne prime, a machine word has one   *)
(* bit more than P (as u128 has over 2^127 - 1), a byte is ByteBits wide.  *)
(* SHA3-256 is an external collaborator that the specification assumes     *)
(* deterministic and collision free; it is modelled by the injective map   *)
(* that prefixes its input with a 1 byte, so that every collision the      *)
(* model exhibits comes from the code around the digest and never from the *)
(* digest itself.                                                          *)
(***************************************************************************)
EXTENDS Integers, Sequences, FiniteSets, TLC

\* ------------------------------------------------------------------ widths
\* Exponent of the Mersenne prime (127 in the source).
FieldBits == 3

\* const P: u128 = (1 << 127) - 1
P == 2^FieldBits - 1

\* Width of the machine word holding field elements (u128: one bit above P).
WordBits == FieldBits + 1

\* Largest value of a machine word (u128::MAX).
WordMax == 2^WordBits - 1

\* Width of a byte (u8).
ByteBits == 1

ByteBase == 2^ByteBits

\* Length of u128::to_be_bytes().
WordBytes == WordBits \div ByteBits

\* ------------------------------------------------------------------ bounds
\* Index of the last message: the messages are the first MaxMsg + 1 byte
\* strings in length-then-lexicographic order.
MaxMsg == 6

\* Largest ring of public keys.
MaxRing == 2

\* Largest number of signers whose signatures are aggregated.
MaxAgg == 1

\* Longest list of signatures, and of messages, of a caller's choice given to
\* aggregate and to aggregate verify.
MaxSigs == 3

\* Longest list of arbitrary leaves given to MerkleTree::new; lists of one
\* more and of twice as many leaves are built from two leaf values.
MaxLeaves == 4

\* ------------------------------------------------------------ byte strings
\* u128::to_be_bytes: fixed width, big endian.
to_be_bytes(x) ==
  [i \in 1..WordBytes |-> (x \div (ByteBase^(WordBytes - i))) % ByteBase]

\* BigUint::to_bytes_be: minimal width, big endian; zero is the single byte 0.
RECURSIVE to_bytes_be(_)
to_bytes_be(v) ==
  IF v < ByteBase THEN <<v>>
  ELSE Append(to_bytes_be(v \div ByteBase), v % ByteBase)

\* BigUint::from_bytes_be: leading zero bytes do not count; empty is zero.
RECURSIVE from_bytes_be(_)
from_bytes_be(bs) ==
  IF bs = <<>> THEN 0
  ELSE from_bytes_be(SubSeq(bs, 1, Len(bs) - 1)) * ByteBase + bs[Len(bs)]

\* Hash::new(HashFunction::Sha3_256).compute(input): the digest bytes.
sha3_256(input) == <<1>> \o input

Hash_compute(input) == sha3_256(input)

\* The reduced digest of a message: (from_bytes_be(hash) % P).to_u128().
message_u128(message) == from_bytes_be(Hash_compute(message)) % P

\* ------------------------------------------------------------ Legendre PRF
\* legendre_prf.rs mod_add: both operands reduced first, so the sum fits a word.
legendre_mod_add(a, b, modulus) == ((a % modulus) + (b % modulus)) % modulus

legendre_mod_sub(a, b, modulus) ==
  LET a_mod == a % modulus
      b_mod == b % modulus
  IN  IF a_mod >= b_mod THEN (a_mod - b_mod) % modulus
      ELSE (modulus + a_mod - b_mod) % modulus

\* The double-and-add loop of mod_mul, one iteration per call.
RECURSIVE mod_mul_loop(_, _, _, _)
mod_mul_loop(res, a_temp, b_temp, modulus) ==
  IF b_temp > 0
  THEN mod_mul_loop(IF b_temp % 2 = 1 THEN legendre_mod_add(res, a_temp, modulus)
                                      ELSE res,
                    legendre_mod_add(a_temp, a_temp, modulus),
                    b_temp \div 2, modulus)
  ELSE res

legendre_mod_mul(a, b, modulus) == mod_mul_loop(0, a % modulus, b % modulus, modulus)

\* The square-and-multiply loop of mod_pow, one iteration per call.
RECURSIVE mod_pow_loop(_, _, _, _)
mod_pow_loop(result, base_mod, exp_temp, modulus) ==
  IF exp_temp > 0
  THEN mod_pow_loop(IF exp_temp % 2 = 1 THEN legendre_mod_mul(result, base_mod, modulus)
                                        ELSE result,
                    legendre_mod_mul(base_mod, base_mod, modulus),
                    exp_temp \div 2, modulus)
  ELSE result

legendre_mod_pow(base, exp, modulus) ==
  IF modulus = 1 THEN 0 ELSE mod_pow_loop(1, base % modulus, exp, modulus)

\* LegendrePRF::with_key: the stored secret key.
with_key(key) == key % P

\* legendre_symbol with the two outcomes of the last test exchanged.
legendre_symbol_swapped(a) ==
  IF a = 0 THEN 0
  ELSE LET exp == legendre_mod_sub(P, 1, P) \div 2
           result == legendre_mod_pow(a, exp, P)
       IN  IF result = 1 THEN -1 ELSE 1

\* LegendrePRF::legendre_symbol.
legendre_symbol(a) ==
  IF a = 0 THEN 0
  ELSE LET exp == legendre_mod_sub(P, 1, P) \div 2
           result == legendre_mod_pow(a, exp, P)
       IN  IF result = 1 THEN 1 ELSE -1

\* evaluate with the input x left out of the sum.
evaluate_key_only(secret_key, x) ==
  LET symbol == legendre_symbol(legendre_mod_add(secret_key, 0, P))
  IN  [panic |-> symbol \notin {1, -1},
       bit   |-> IF symbol = 1 THEN 0 ELSE 1]

\* LegendrePRF::evaluate on the stored key: the bit, or the panic of the
\* match's last arm ("Invalid Legendre symbol").
evaluate(secret_key, x) ==
  LET k_x == legendre_mod_add(secret_key, x, P)
      symbol == legendre_symbol(k_x)
  IN  [panic |-> symbol \notin {1, -1},
       bit   |-> IF symbol = 1 THEN 0 ELSE 1]

\* ------------------------------------------------------------- Merkle tree
\* The bytes hash_two gives to the digest: the minimal-width big-endian
\* encodings of a and of b, one after the other.
hash_two_data(a, b) == to_bytes_be(a) \o to_bytes_be(b)

\* hash_two with the first operand left out of the digest input.
hash_two_second(a, b) == from_bytes_be(Hash_compute(to_bytes_be(b)))

\* MerkleTree::hash_two: digest of the two minimal-width encodings, read back
\* as an integer (not reduced mod P).
hash_two(a, b) == from_bytes_be(Hash_compute(hash_two_data(a, b)))

\* One pass of the chunks(2) loop with the unpaired last element hashed with
\* itself.
next_level_duplicating(level) ==
  [j \in 1..((Len(level) + 1) \div 2) |->
     IF 2 * j <= Len(level) THEN hash_two(level[2 * j - 1], level[2 * j])
     ELSE hash_two(level[2 * j - 1], level[2 * j - 1])]

\* One pass of the chunks(2) loop: pairs are hashed, an unpaired last element
\* is carried over.
next_level(level) ==
  [j \in 1..((Len(level) + 1) \div 2) |->
     IF 2 * j <= Len(level) THEN hash_two(level[2 * j - 1], level[2 * j])
     ELSE level[2 * j - 1]]

\* The while loop of MerkleTree::new and the push of the last level.
RECURSIVE build_layers(_, _)
build_layers(tree, level) ==
  IF Len(level) > 1 THEN build_layers(Append(tree, level), next_level(level))
  ELSE IF level # <<>> THEN Append(tree, level)
  ELSE tree

\* MerkleTree::new: the layers, leaves first.
MerkleTree_new(leaves) == build_layers(<<>>, leaves)

\* Option values: None is the empty sequence, Some(x) is <<x>>.
None == <<>>

Some(x) == <<x>>

\* MerkleTree::root.
root(tree) == IF tree = <<>> THEN None ELSE Some(tree[Len(tree)][1])

\* Option::unwrap / expect: the value, or a panic on None.
unwrap_panics(opt) == opt = None

unwrap(opt) == opt[1]

\* self.leaves.len(): the first layer is the leaf list, and an empty leaf list
\* leaves the tree without layers.
leaves_len(tree) == IF tree = <<>> THEN 0 ELSE Len(tree[1])

\* The for loop of generate_proof over the layers below the root, one
\* iteration per call; l is the layer (1 = leaves), idx the 0-based position.
RECURSIVE proof_loop(_, _, _, _)
proof_loop(tree, l, idx, proof) ==
  IF l <= Len(tree) - 1
  THEN LET level == tree[l]
           sibling_index == IF idx % 2 = 0 THEN idx + 1 ELSE idx - 1
       IN  proof_loop(tree, l + 1, idx \div 2,
                      IF sibling_index < Len(level)
                      THEN Append(proof, <<level[sibling_index + 1], idx % 2 = 0>>)
                      ELSE proof)
  ELSE proof

\* generate_proof with the position flag of every entry inverted.
RECURSIVE proof_loop_flag_inverted(_, _, _, _)
proof_loop_flag_inverted(tree, l, idx, proof) ==
  IF l <= Len(tree) - 1
  THEN LET level == tree[l]
           sibling_index == IF idx % 2 = 0 THEN idx + 1 ELSE idx - 1
       IN  proof_loop_flag_inverted(tree, l + 1, idx \div 2,
                      IF sibling_index < Len(level)
                      THEN Append(proof, <<level[sibling_index + 1], idx % 2 = 1>>)
                      ELSE proof)
  ELSE proof

generate_proof_flag_inverted(tree, index) ==
  IF index >= leaves_len(tree) THEN None
  ELSE Some(proof_loop_flag_inverted(tree, 1, index, <<>>))

\* generate_proof without the test of the index.
generate_proof_unchecked(tree, index) == Some(proof_loop(tree, 1, index, <<>>))

\* MerkleTree::generate_proof: the (sibling, is_left) pairs from the leaf up,
\* or None for an index past the leaves.
generate_proof(tree, index) ==
  IF index >= leaves_len(tree) THEN None
  ELSE Some(proof_loop(tree, 1, index, <<>>))

\* The for loop of verify_proof: the hash after the entries from position k.
RECURSIVE verify_loop_hash(_, _, _)
verify_loop_hash(hash, proof, k) ==
  IF k <= Len(proof)
  THEN LET sibling == proof[k][1]
           is_left == proof[k][2]
       IN  verify_loop_hash(IF is_left THEN hash_two(hash, sibling)
                                       ELSE hash_two(sibling, hash),
                            proof, k + 1)
  ELSE hash

\* verify_proof with the position flags ignored: the hash always on the left.
RECURSIVE verify_loop_hash_unordered(_, _, _)
verify_loop_hash_unordered(hash, proof, k) ==
  IF k <= Len(proof)
  THEN verify_loop_hash_unordered(hash_two(hash, proof[k][1]), proof, k + 1)
  ELSE hash

verify_proof_unordered(root_in, leaf, proof) ==
  verify_loop_hash_unordered(leaf, proof, 1) = root_in

\* MerkleTree::verify_proof.
verify_proof(root_in, leaf, proof) == verify_loop_hash(leaf, proof, 1) = root_in

\* -------------------------------------------------------- field operations
\* FieldElement::new: the value reduced mod P.
FieldElement_new(value) == value % P

\* The square-and-multiply loop of FieldElement::pow, one iteration per call.
RECURSIVE pow_loop(_, _, _, _)
pow_loop(result, base, exponent, modulus) ==
  IF exponent # 0
  THEN pow_loop(IF exponent % 2 = 1 THEN (result * base) % modulus ELSE result,
                (base * base) % modulus, exponent \div 2, modulus)
  ELSE result

\* FieldElement::pow with a zero base answered by zero for every exponent.
FieldElement_pow_zero_base(value, exp) ==
  IF value = 0 THEN 0 ELSE pow_loop(1, value, exp, P)

\* FieldElement::pow on the element's value.
FieldElement_pow(value, exp) == pow_loop(1, value, exp, P)

\* The while loop of extended_gcd, one iteration per call.  The operands are
\* BigUint: a subtraction below zero panics.
RECURSIVE extended_gcd_loop(_, _, _, _, _, _)
extended_gcd_loop(old_r, r, old_s, s, old_t, t) ==
  IF r # 0
  THEN LET quotient == old_r \div r
       IN  IF old_r < quotient * r \/ old_s < quotient * s \/ old_t < quotient * t
           THEN [panic |-> TRUE, gcd |-> 0, x |-> 0, y |-> 0]
           ELSE extended_gcd_loop(r, old_r - quotient * r,
                                  s, old_s - quotient * s,
                                  t, old_t - quotient * t)
  ELSE [panic |-> FALSE, gcd |-> old_r, x |-> old_s, y |-> old_t]

extended_gcd(a, b) == extended_gcd_loop(a, b, 1, 0, 0, 1)

\* FieldElement::inverse without the test of the gcd.
FieldElement_inverse_unchecked(value) ==
  LET g == extended_gcd(value, P)
  IN  [panic |-> g.panic, out |-> IF g.panic THEN None ELSE Some((g.x + P) % P)]

\* FieldElement::inverse on the element's value: Some(x), None, or the panic
\* of extended_gcd.
FieldElement_inverse(value) ==
  LET g == extended_gcd(value, P)
  IN  [panic |-> g.panic,
       out   |-> IF ~g.panic /\ g.gcd = 1 THEN Some((g.x + P) % P) ELSE None]

\* field_operations.rs mod_sub.  The remainder by a zero modulus panics; the
\* result is at most the larger of a and modulus, so to_u128() succeeds.
mod_sub(a, b, modulus) ==
  IF a >= b THEN [panic |-> FALSE, value |-> a - b]
  ELSE IF modulus = 0 THEN [panic |-> TRUE, value |-> 0]
  ELSE [panic |-> FALSE, value |-> modulus - ((b - a) % modulus)]

\* The square-and-multiply loop of field_operations.rs mod_pow.
RECURSIVE field_mod_pow_loop(_, _, _, _)
field_mod_pow_loop(result, base, exponent, modulus) ==
  IF exponent > 0
  THEN field_mod_pow_loop(IF exponent % 2 = 1 THEN (result * base) % modulus
                                              ELSE result,
                          (base * base) % modulus, exponent \div 2, modulus)
  ELSE result

\* field_operations.rs mod_pow.  The remainder by a zero modulus panics.
mod_pow(a, exp, modulus) ==
  IF modulus = 0 THEN [panic |-> TRUE, value |-> 0]
  ELSE [panic |-> FALSE, value |-> field_mod_pow_loop(1, a % modulus, exp, modulus)]

\* ------------------------------------------------------------------ Loquat
\* A u128 intermediate outside 0..u128::MAX: a debug build panics there, a
\* release build wraps.
Overflows(x) == x < 0 \/ x > WordMax

\* Loquat::mod_sub with its operands exchanged.
Loquat_mod_sub_swapped(a, b, modulus) == (b + modulus - a) % modulus

\* Loquat::mod_sub.
Loquat_mod_sub(a, b, modulus) == (a + modulus - b) % modulus

\* Loquat::keygen for the drawn secret key: the public key bytes.
public_key_of(secret_key) == Hash_compute(to_be_bytes(secret_key))

\* Loquat::sign with the two branches on the PRF bit exchanged.
Loquat_sign_swapped(sk_in, msg) ==
  LET m == message_u128(msg)
      prf == evaluate(with_key(sk_in), m)
      signature_value == IF prf.bit = 1 THEN Loquat_mod_sub(sk_in, m, P)
                         ELSE (sk_in + m) % P
      merkle_tree == MerkleTree_new(<<signature_value, m>>)
  IN  IF prf.panic
      THEN [panic |-> TRUE, overflow |-> FALSE, sigma |-> 0, merkle_root |-> 0]
      ELSE [panic |-> unwrap_panics(root(merkle_tree)),
            overflow |-> IF prf.bit = 1
                         THEN Overflows(sk_in + P) \/ Overflows(sk_in + P - m)
                         ELSE Overflows(sk_in + m),
            sigma |-> signature_value,
            merkle_root |-> unwrap(root(merkle_tree))]

\* Loquat::sign.  panic: evaluate's panic ended the call.
Loquat_sign(sk_in, msg) ==
  LET m == message_u128(msg)
      prf == evaluate(with_key(sk_in), m)
      signature_value == IF prf.bit = 1 THEN (sk_in + m) % P
                         ELSE Loquat_mod_sub(sk_in, m, P)
      merkle_tree == MerkleTree_new(<<signature_value, m>>)
  IN  IF prf.panic
      THEN [panic |-> TRUE, overflow |-> FALSE, sigma |-> 0, merkle_root |-> 0]
      ELSE [panic |-> unwrap_panics(root(merkle_tree)),
            overflow |-> IF prf.bit = 1 THEN Overflows(sk_in + m)
                         ELSE Overflows(sk_in + P) \/ Overflows(sk_in + P - m),
            sigma |-> signature_value,
            merkle_root |-> unwrap(root(merkle_tree))]

\* Loquat::verify: "true", "false", or "panic" when the call aborts.
Loquat_verify(pk_in, msg, sig) ==
  LET m == message_u128(msg)
      sigma_u128 == sig.sigma % P
      expected_sk_case1 == Loquat_mod_sub(sigma_u128, m, P)
      expected_sk_case2 == (sigma_u128 + m) % P
      expected_pk_case1 == Hash_compute(to_be_bytes(expected_sk_case1))
      expected_pk_case2 == Hash_compute(to_be_bytes(expected_sk_case2))
      pk_matches_case1 == expected_pk_case1 = pk_in
      pk_matches_case2 == expected_pk_case2 = pk_in
      expected_sk == IF pk_matches_case1 THEN expected_sk_case1 ELSE expected_sk_case2
      prf == evaluate(with_key(expected_sk), m)
      recomputed_sigma == IF prf.bit = 1 THEN (expected_sk + m) % P
                          ELSE Loquat_mod_sub(expected_sk, m, P)
      expected_root == root(MerkleTree_new(<<recomputed_sigma, m>>))
      merkle_matches == unwrap(expected_root) = sig.merkle_root
  IN  IF ~pk_matches_case1 /\ ~pk_matches_case2 THEN "false"
      ELSE IF prf.panic \/ unwrap_panics(expected_root) THEN "panic"
      ELSE IF (pk_matches_case1 \/ pk_matches_case2) /\ merkle_matches THEN "true"
      ELSE "false"

\* ---------------------------------------------------------- ring signature
\* Mutant of ring_mod_add: the sum is not reduced.
ring_mod_add_unreduced(a, b, modulus) == a + b

\* ring_signature.rs mod_add, on BigUint.
ring_mod_add(a, b, modulus) == (a + b) % modulus

\* The leaves of the ring's tree: each public key read as an integer.
ring_leaves(public_keys) ==
  [i \in 1..Len(public_keys) |-> from_bytes_be(public_keys[i])]

\* LoquatRingSignature::sign with the drawn challenge.  panic: the unwrap of
\* the root of an empty ring.
Ring_sign(sk_in, msg, public_keys, signer_index, challenge) ==
  LET message_int == from_bytes_be(Hash_compute(msg))
      merkle_tree == MerkleTree_new(ring_leaves(public_keys))
      ring_commitment == root(merkle_tree)
      sigma == ring_mod_add(ring_mod_add(sk_in, message_int, P), challenge, P)
  IN  IF unwrap_panics(ring_commitment)
      THEN [panic |-> TRUE, sigma |-> 0, ring_commitment |-> 0, challenge |-> 0]
      ELSE [panic |-> FALSE, sigma |-> sigma,
            ring_commitment |-> unwrap(ring_commitment), challenge |-> challenge]

\* LoquatRingSignature::verify without the test of sigma against P.
Ring_verify_unranged(public_keys, msg, ring_sig) ==
  LET expected_commitment == root(MerkleTree_new(ring_leaves(public_keys)))
  IN  IF unwrap_panics(expected_commitment) THEN "panic"
      ELSE IF unwrap(expected_commitment) = ring_sig.ring_commitment
      THEN "true" ELSE "false"

\* LoquatRingSignature::verify: "true", "false", or "panic".
Ring_verify(public_keys, msg, ring_sig) ==
  LET message_int == from_bytes_be(Hash_compute(msg))
      merkle_tree == MerkleTree_new(ring_leaves(public_keys))
      expected_commitment == root(merkle_tree)
  IN  IF unwrap_panics(expected_commitment) THEN "panic"
      ELSE IF unwrap(expected_commitment) = ring_sig.ring_commitment
              /\ ring_sig.sigma < P
      THEN "true" ELSE "false"

\* ----------------------------------------------------- aggregate signature
\* LoquatAggregate::mod_add.
aggregate_mod_add(a0, b0, modulus) ==
  LET a == a0 % modulus
      b == b0 % modulus
  IN  IF a > modulus - b THEN (a - (modulus - b)) % modulus
      ELSE (a + b) % modulus

\* The for loop of aggregate, from signature i on.
RECURSIVE aggregate_loop(_, _, _)
aggregate_loop(aggregated_sigma, signatures, i) ==
  IF i > Len(signatures) THEN aggregated_sigma
  ELSE LET sig_u128 == signatures[i].sigma % P
           agg_u128 == aggregated_sigma % P
       IN  aggregate_loop(aggregate_mod_add(agg_u128, sig_u128, P), signatures, i + 1)

\* LoquatAggregate::aggregate with the drawn challenge.
aggregate(signatures, challenge) ==
  [aggregated_sigma |-> aggregate_loop(0, signatures, 1), challenge |-> challenge]

\* The for loop of verify over the zipped lists, from pair i on.
RECURSIVE verify_loop(_, _, _, _)
verify_loop(computed_agg_sigma, n, messages, i) ==
  IF i > n THEN computed_agg_sigma
  ELSE LET msg_u128 == message_u128(messages[i])
           agg_u128 == computed_agg_sigma % P
       IN  verify_loop(aggregate_mod_add(agg_u128, msg_u128, P), n, messages, i + 1)

Min(a, b) == IF a < b THEN a ELSE b

\* Mutant of Aggregate_verify: no comparison of the lengths; the zip stops at
\* the shorter list.
Aggregate_verify_unchecked(public_keys, messages, agg_sig) ==
  LET n == Min(Len(public_keys), Len(messages))
      computed_u128 == verify_loop(0, n, messages, 1) % P
      agg_sig_u128 == agg_sig.aggregated_sigma % P
  IN  [ret |-> IF computed_u128 = agg_sig_u128 THEN "true" ELSE "false",
       digests |-> n]

\* LoquatAggregate::verify comparing with aggregated_sigma as given, not
\* reduced mod P.
Aggregate_verify_unreduced(public_keys, messages, agg_sig) ==
  LET n == Min(Len(public_keys), Len(messages))
      computed_u128 == verify_loop(0, n, messages, 1) % P
  IN  IF Len(public_keys) # Len(messages) THEN [ret |-> "false", digests |-> 0]
      ELSE [ret |-> IF computed_u128 = agg_sig.aggregated_sigma THEN "true"
                    ELSE "false",
            digests |-> n]

\* LoquatAggregate::verify: the result and the number of message digests
\* computed on the way.
Aggregate_verify(public_keys, messages, agg_sig) ==
  LET n == Min(Len(public_keys), Len(messages))
      computed_u128 == verify_loop(0, n, messages, 1) % P
      agg_sig_u128 == agg_sig.aggregated_sigma % P
  IN  IF Len(public_keys) # Len(messages) THEN [ret |-> "false", digests |-> 0]
      ELSE [ret |-> IF computed_u128 = agg_sig_u128 THEN "true" ELSE "false",
            digests |-> n]

\* =================================================================== state
VARIABLES
  op,            \* the last operation performed
  prf,           \* the last LegendrePRF evaluation: key, input and outcome
  sk, pk,        \* the signer's key pair (0 and <<>> before keygen)
  message,       \* the message given to sign
  signature,     \* the Loquat signature: sign's result, or the one given to verify
  ring,          \* the public_keys given to the ring operations
  signer_index,  \* the signer_index given to ring sign
  ringSig,       \* the ring signature: sign's result, or the one given to verify
  signed,        \* the signers aggregated: public key, message and signature each
  aggSig,        \* the aggregate signature
  vpk,           \* the public key given to Loquat::verify
  vkeys,         \* the public_keys given to LoquatAggregate::verify
  vmsg,          \* the message given to Loquat / ring verify
  vmsgs,         \* the messages given to LoquatAggregate::verify
  ret,           \* the verify result: "true", "false", "panic"; "none" before
  digests,       \* message digests computed by LoquatAggregate::verify
  merkle,        \* the Merkle tree calls: leaves, root, proof, verify_proof's inputs and result
  field,         \* the last field_operations call: inputs and outcome
  symbols,       \* the last Legendre symbols computed: of a, of b, of a * b mod P
  combine        \* the last hash_two call: operands, digest input and result

vars == <<op, prf, sk, pk, message, signature, ring, signer_index, ringSig, signed,
          aggSig, vpk, vkeys, vmsg, vmsgs, ret, digests, merkle, field, symbols,
          combine>>

\* ------------------------------------------------------------ input domains
\* The n-th byte string in length-then-lexicographic order.
nth_message(n) == Tail(to_bytes_be(n + 1))

Messages == {nth_message(n) : n \in 0..MaxMsg}

\* rng.gen_range(1..P)
SecretKeys == 1..(P - 1)

\* Public keys a caller can hand in: the digest of every word below P, and a
\* byte string that is no digest.
PkInputs == {public_key_of(k) : k \in 0..(P - 1)} \cup {<<>>}

\* Lists of at most n elements of S.
SeqsUpTo(S, n) == UNION {[1..k -> S] : k \in 0..n}

\* Rings of signers' public keys.
Rings == SeqsUpTo({public_key_of(k) : k \in SecretKeys}, MaxRing)

NoPrf == [key |-> 0, x |-> 0, panic |-> FALSE, bit |-> 0]

NoSignature == [panic |-> FALSE, overflow |-> FALSE, sigma |-> 0, merkle_root |-> 0]

NoRingSig == [panic |-> FALSE, sigma |-> 0, ring_commitment |-> 0, challenge |-> 0]

NoAggSig == [aggregated_sigma |-> 0, challenge |-> 0]

\* The variables of the Loquat, ring and aggregate calls at their rest values.
LoquatRest ==
  /\ signature' = NoSignature /\ vpk' = <<>> /\ prf' = NoPrf

RingRest ==
  /\ ring' = <<>> /\ signer_index' = 0 /\ ringSig' = NoRingSig

AggRest ==
  /\ signed' = <<>> /\ aggSig' = NoAggSig /\ vkeys' = <<>> /\ vmsgs' = <<>>
  /\ digests' = 0

VerifyRest ==
  /\ vmsg' = <<>> /\ ret' = "none"

NoMerkle == [leaves |-> <<>>, tree |-> <<>>, root |-> None, index |-> 0, proof |-> None,
             leaf |-> 0, vproof |-> <<>>, ret |-> "none"]

NoField == [a |-> 0, b |-> 0, modulus |-> 0, panic |-> FALSE, out |-> None]

NoSymbols == [a |-> 0, b |-> 0, sa |-> 0, sb |-> 0, sab |-> 0]

NoCombine == [a |-> 0, b |-> 0, data |-> <<>>, hash |-> 0]

PrimitiveRest ==
  /\ merkle' = NoMerkle /\ field' = NoField /\ symbols' = NoSymbols
  /\ combine' = NoCombine

\* The variables of the signature calls, untouched by the calls on the
\* Merkle tree, the field and the Legendre symbol alone.
signatureVars == <<prf, sk, pk, message, signature, ring, signer_index, ringSig,
                   signed, aggSig, vpk, vkeys, vmsg, vmsgs, ret, digests>>

Init ==
  /\ op = "init" /\ sk = 0 /\ pk = <<>> /\ message = <<>>
  /\ signature = NoSignature /\ vpk = <<>> /\ prf = NoPrf
  /\ ring = <<>> /\ signer_index = 0 /\ ringSig = NoRingSig
  /\ signed = <<>> /\ aggSig = NoAggSig /\ vkeys = <<>> /\ vmsgs = <<>>
  /\ digests = 0 /\ vmsg = <<>> /\ ret = "none"
  /\ merkle = NoMerkle /\ field = NoField /\ symbols = NoSymbols
  /\ combine = NoCombine

\* ----------------------------------------------------------------- actions
\* A run is one session of a caller: either a key holder (keygen, then sign or
\* ring sign, then the verification of what was signed), or a verifier handed
\* inputs of somebody else's choice, or a group of signers whose signatures
\* are aggregated and verified.
\* LegendrePRF::with_key(key).evaluate(x) on any two words
Evaluate ==
  /\ op = "init"
  /\ \E key \in 0..WordMax, x \in 0..WordMax :
       LET out == evaluate(with_key(key), x)
       IN  prf' = [key |-> key, x |-> x, panic |-> out.panic, bit |-> out.bit]
  /\ op' = "evaluate" /\ sk' = 0 /\ pk' = <<>> /\ message' = <<>>
  /\ signature' = NoSignature /\ vpk' = <<>>
  /\ RingRest /\ AggRest /\ VerifyRest /\ PrimitiveRest

\* Loquat::keygen
Keygen ==
  /\ op = "init"
  /\ \E k \in SecretKeys :
    /\ op' = "keygen" /\ sk' = k /\ pk' = public_key_of(k) /\ message' = <<>>
    /\ LoquatRest /\ RingRest /\ AggRest /\ VerifyRest /\ PrimitiveRest

\* Loquat::sign(sk, M) by the key holder
Sign ==
  /\ op = "keygen"
  /\ \E M \in Messages :
       /\ op' = "sign" /\ message' = M /\ signature' = Loquat_sign(sk, M)
       /\ vpk' = <<>> /\ prf' = NoPrf
       /\ UNCHANGED <<sk, pk>>
       /\ RingRest /\ AggRest /\ VerifyRest /\ PrimitiveRest

\* Loquat::verify(pk, M2, signature) on the signer's public key and signature
Verify ==
  /\ op = "sign" /\ ~signature.panic
  /\ \E M2 \in Messages :
       /\ op' = "verify" /\ vpk' = pk /\ vmsg' = M2
       /\ ret' = Loquat_verify(pk, M2, signature)
       /\ UNCHANGED <<sk, pk, message, signature, prf>>
       /\ RingRest /\ AggRest /\ PrimitiveRest

\* Merkle roots a forger can put into a signature for message M2.
RootInputs(M2) == {hash_two(s, message_u128(M2)) : s \in 0..(P - 1)} \cup {0}

\* Loquat::verify on a public key, message and signature of the caller's choice
VerifyForged ==
  /\ op = "init"
  /\ \E pk_in \in PkInputs, M2 \in Messages, s \in 0..P :
    \E r \in RootInputs(M2) :
      /\ op' = "verifyForged" /\ sk' = 0 /\ pk' = <<>> /\ message' = <<>>
      /\ signature' = [NoSignature EXCEPT !.sigma = s, !.merkle_root = r]
      /\ vpk' = pk_in /\ vmsg' = M2 /\ prf' = NoPrf
      /\ ret' = Loquat_verify(pk_in, M2, signature')
      /\ RingRest /\ AggRest /\ PrimitiveRest

\* rng.gen_range(1..P - 1)
RingChallenges == 1..(P - 2)

\* LoquatRingSignature::sign(sk, M, keys, idx) by the key holder
RingSign ==
  /\ op = "keygen"
  /\ \E M \in Messages, keys \in Rings, c \in RingChallenges :
       \E idx \in {0, Len(keys)} :
         /\ op' = "ringSign" /\ message' = M /\ ring' = keys
         /\ signer_index' = idx
         /\ ringSig' = Ring_sign(sk, M, keys, idx, c)
         /\ UNCHANGED <<sk, pk>>
         /\ LoquatRest /\ AggRest /\ VerifyRest /\ PrimitiveRest

\* LoquatRingSignature::verify(ring, M2, ringSig) on the signed ring
RingVerify ==
  /\ op = "ringSign" /\ ~ringSig.panic
  /\ \E M2 \in Messages :
       /\ op' = "ringVerify" /\ vmsg' = M2
       /\ ret' = Ring_verify(ring, M2, ringSig)
       /\ UNCHANGED <<sk, pk, message, ring, signer_index, ringSig>>
       /\ LoquatRest /\ AggRest /\ PrimitiveRest

\* LoquatRingSignature::verify on a ring, message and signature of the
\* caller's choice
RingVerifyForged ==
  /\ op = "init"
  /\ \E keys \in Rings, M2 \in Messages, s \in 0..P, c \in {0, P} :
    \E rc \in {0} \cup {unwrap(root(MerkleTree_new(ring_leaves(k2)))) :
                         k2 \in {keys, Tail(keys \o <<public_key_of(1)>>)} \ {<<>>}} :
      /\ op' = "ringVerifyForged" /\ sk' = 0 /\ pk' = <<>> /\ message' = <<>>
      /\ ring' = keys /\ signer_index' = 0
      /\ ringSig' = [panic |-> FALSE, sigma |-> s, ring_commitment |-> rc,
                     challenge |-> c]
      /\ vmsg' = M2
      /\ ret' = Ring_verify(keys, M2, ringSig')
      /\ LoquatRest /\ AggRest /\ PrimitiveRest

\* A further signer generates a key pair and signs a message (Loquat::keygen,
\* Loquat::sign), to be aggregated.
AggSign ==
  /\ op \in {"init", "aggSign"}
  /\ Len(signed) < MaxAgg
  /\ \E k \in SecretKeys, M \in Messages :
       LET s == Loquat_sign(k, M)
       IN  /\ ~s.panic
           /\ signed' = Append(signed, [pk |-> public_key_of(k), message |-> M,
                                        sigma |-> s.sigma,
                                        merkle_root |-> s.merkle_root])
  /\ op' = "aggSign" /\ sk' = 0 /\ pk' = <<>> /\ message' = <<>>
  /\ aggSig' = NoAggSig /\ vkeys' = <<>> /\ vmsgs' = <<>> /\ digests' = 0
  /\ LoquatRest /\ RingRest /\ VerifyRest /\ PrimitiveRest

\* rng.gen_range(1..P)
AggChallenges == 1..(P - 1)

\* LoquatAggregate::aggregate(signatures of the signers)
Aggregate ==
  /\ op = "aggSign"
  /\ \E c \in AggChallenges :
       aggSig' = aggregate(signed, c)
  /\ op' = "aggregate" /\ vkeys' = <<>> /\ vmsgs' = <<>> /\ digests' = 0
  /\ UNCHANGED <<sk, pk, message, signed>>
  /\ LoquatRest /\ RingRest /\ VerifyRest /\ PrimitiveRest

\* The signers' public keys and messages, in order.
signed_keys == [i \in 1..Len(signed) |-> signed[i].pk]

signed_messages == [i \in 1..Len(signed) |-> signed[i].message]

\* The prefixes of a list, and the list with one more element.
Resized(list, extra) ==
  {SubSeq(list, 1, k) : k \in 0..Len(list)} \cup {Append(list, extra)}

\* The message lists with at most one message replaced.
Replaced(msgs) ==
  {msgs} \cup {[msgs EXCEPT ![i] = M] : i \in 1..Len(msgs), M \in Messages}

\* LoquatAggregate::verify(keys, msgs, aggSig) on the signers' public keys
\* and on their messages, one of them possibly replaced, either list
\* possibly shortened or extended
AggVerify ==
  /\ op = "aggregate"
  /\ \E keys \in Resized(signed_keys, public_key_of(1)),
        msgs \in Replaced(signed_messages) \cup Resized(signed_messages, <<>>) :
       LET r == Aggregate_verify(keys, msgs, aggSig)
       IN  /\ vkeys' = keys /\ vmsgs' = msgs
           /\ ret' = r.ret /\ digests' = r.digests
  /\ op' = "aggVerify" /\ vmsg' = <<>>
  /\ UNCHANGED <<sk, pk, message, signed, aggSig>>
  /\ LoquatRest /\ RingRest /\ PrimitiveRest

\* Leaf values given to MerkleTree::new.
LeafValues == 0..(MaxLeaves - 1)

\* The leaf lists: every list of at most MaxLeaves leaf values, the empty
\* list included, and the lists of MaxLeaves + 1 and of 2 * MaxLeaves leaves
\* that are 0 or 1.
LeafLists ==
  SeqsUpTo(LeafValues, MaxLeaves)
    \cup [1..(MaxLeaves + 1) -> 0..1] \cup [1..(2 * MaxLeaves) -> 0..1]

\* MerkleTree::new(leaves) and root()
MerkleNew ==
  /\ op = "init"
  /\ \E leaves \in LeafLists :
       merkle' = [NoMerkle EXCEPT !.leaves = leaves,
                                  !.tree = MerkleTree_new(leaves),
                                  !.root = root(MerkleTree_new(leaves))]
  /\ op' = "merkleNew"
  /\ UNCHANGED signatureVars /\ UNCHANGED <<field, symbols, combine>>

\* generate_proof(index) on the tree built, for every index up to the second
\* one past the leaves
GenerateProof ==
  /\ op = "merkleNew"
  /\ \E index \in 0..(Len(merkle.leaves) + 1) :
       merkle' = [merkle EXCEPT
                    !.index = index,
                    !.proof = generate_proof(merkle.tree, index)]
  /\ op' = "generateProof"
  /\ UNCHANGED signatureVars /\ UNCHANGED <<field, symbols, combine>>

\* The values held by the nodes of a tree.
Nodes(tree) == UNION {{tree[l][i] : i \in 1..Len(tree[l])} : l \in 1..Len(tree)}

\* The values put in the place of a sibling: the other node and leaf values
\* at most one byte longer.
Replacements(tree, sibling) ==
  {v \in Nodes(tree) \cup LeafValues : v # sibling /\ v <= 2 * sibling + 1}

\* The proofs that differ from a proof in one element: one sibling replaced,
\* or one is_left flag inverted.
Altered(tree, proof) ==
  UNION {{[proof EXCEPT ![k] = <<v, proof[k][2]>>] :
            v \in Replacements(tree, proof[k][1])} \cup
         {[proof EXCEPT ![k] = <<proof[k][1], ~proof[k][2]>>]} :
         k \in 1..Len(proof)}

\* MerkleTree::verify_proof(root, leaf, proof) on the leaf of the proof's index
\* with the proof generated or an altered one, and on every leaf of the tree
\* with the proof generated
VerifyProof ==
  /\ op = "generateProof" /\ merkle.proof # None
  /\ LET tree == merkle.tree
         proof == unwrap(merkle.proof)
         own == merkle.leaves[merkle.index + 1]
     IN  \E given \in ({own} \X ({proof} \cup Altered(tree, proof))) \cup
                       ({merkle.leaves[j] : j \in 1..Len(merkle.leaves)} \X {proof}) :
           merkle' = [merkle EXCEPT
                        !.leaf = given[1], !.vproof = given[2],
                        !.ret = IF verify_proof(unwrap(merkle.root), given[1], given[2])
                                THEN "true" ELSE "false"]
  /\ op' = "verifyProof"
  /\ UNCHANGED signatureVars /\ UNCHANGED <<field, symbols, combine>>

\* FieldElement::new(value).inverse()
Inverse ==
  /\ op = "init"
  /\ \E value \in 0..WordMax :
       LET r == FieldElement_inverse(FieldElement_new(value))
       IN  field' = [a |-> value, b |-> 0, modulus |-> P, panic |-> r.panic,
                     out |-> r.out]
  /\ op' = "inverse"
  /\ UNCHANGED signatureVars /\ UNCHANGED <<merkle, symbols, combine>>

\* FieldElement::new(value).pow(exp)
Pow ==
  /\ op = "init"
  /\ \E value \in 0..WordMax, exp \in 0..WordMax :
       field' = [a |-> value, b |-> exp, modulus |-> P, panic |-> FALSE,
                 out |-> Some(FieldElement_pow(FieldElement_new(value), exp))]
  /\ op' = "pow"
  /\ UNCHANGED signatureVars /\ UNCHANGED <<merkle, symbols, combine>>

\* mod_sub(a, b, modulus) of field_operations.rs on any three words
ModSub ==
  /\ op = "init"
  /\ \E a \in 0..WordMax, b \in 0..WordMax, modulus \in 0..WordMax :
       LET r == mod_sub(a, b, modulus)
       IN  field' = [a |-> a, b |-> b, modulus |-> modulus, panic |-> r.panic,
                     out |-> IF r.panic THEN None ELSE Some(r.value)]
  /\ op' = "modSub"
  /\ UNCHANGED signatureVars /\ UNCHANGED <<merkle, symbols, combine>>

\* mod_pow(a, exp, modulus) of field_operations.rs on any three words
ModPow ==
  /\ op = "init"
  /\ \E a \in 0..WordMax, exp \in 0..WordMax, modulus \in 0..WordMax :
       LET r == mod_pow(a, exp, modulus)
       IN  field' = [a |-> a, b |-> exp, modulus |-> modulus, panic |-> r.panic,
                     out |-> IF r.panic THEN None ELSE Some(r.value)]
  /\ op' = "modPow"
  /\ UNCHANGED signatureVars /\ UNCHANGED <<merkle, symbols, combine>>

\* LegendrePRF::legendre_symbol on two words and on their product mod P
LegendreSymbols ==
  /\ op = "init"
  /\ \E a \in 0..WordMax, b \in 0..WordMax :
       symbols' = [a |-> a, b |-> b, sa |-> legendre_symbol(a),
                   sb |-> legendre_symbol(b),
                   sab |-> legendre_symbol(legendre_mod_mul(a, b, P))]
  /\ op' = "legendreSymbols"
  /\ UNCHANGED signatureVars /\ UNCHANGED <<merkle, field, combine>>

\* MerkleTree::hash_two(a, b) on any two words
HashTwo ==
  /\ op = "init"
  /\ \E a \in 0..WordMax, b \in 0..WordMax :
       combine' = [a |-> a, b |-> b, data |-> hash_two_data(a, b),
                   hash |-> hash_two(a, b)]
  /\ op' = "hashTwo"
  /\ UNCHANGED signatureVars /\ UNCHANGED <<merkle, field, symbols>>

\* Public key lists of n entries a caller can hand to aggregate verify.
KeyLists(n) ==
  {[i \in 1..k |-> key] : k \in {n, n + 1}, key \in {public_key_of(1), <<>>}}

\* LoquatAggregate::aggregate on signatures of the caller's choice, each sigma
\* any value up to P
AggregateAny ==
  /\ op = "init"
  /\ \E sigmas \in SeqsUpTo(0..P, MaxSigs), c \in AggChallenges :
       /\ signed' = [i \in 1..Len(sigmas) |->
                       [pk |-> <<>>, message |-> <<>>, sigma |-> sigmas[i],
                        merkle_root |-> 0]]
       /\ aggSig' = aggregate(signed', c)
  /\ op' = "aggregateAny" /\ sk' = 0 /\ pk' = <<>> /\ message' = <<>>
  /\ vkeys' = <<>> /\ vmsgs' = <<>> /\ digests' = 0
  /\ LoquatRest /\ RingRest /\ VerifyRest /\ PrimitiveRest

\* LoquatAggregate::verify on public keys, messages and an aggregate
\* signature of the caller's choice, aggregated_sigma any value below 2 * P
AggVerifyForged ==
  /\ op = "init"
  /\ \E msgs \in SeqsUpTo(Messages, MaxSigs), s \in 0..(2 * P - 1), c \in {0, P} :
       \E keys \in KeyLists(Len(msgs)) :
         LET r == Aggregate_verify(keys, msgs, [aggregated_sigma |-> s, challenge |-> c])
         IN  /\ aggSig' = [aggregated_sigma |-> s, challenge |-> c]
             /\ vkeys' = keys /\ vmsgs' = msgs
             /\ ret' = r.ret /\ digests' = r.digests
  /\ op' = "aggVerifyForged" /\ sk' = 0 /\ pk' = <<>> /\ message' = <<>>
  /\ signed' = <<>> /\ vmsg' = <<>>
  /\ LoquatRest /\ RingRest /\ PrimitiveRest

Next ==
  \/ Evaluate
  \/ Keygen
  \/ Sign
  \/ Verify
  \/ VerifyForged
  \/ RingSign
  \/ RingVerify
  \/ RingVerifyForged
  \/ AggSign
  \/ Aggregate
  \/ AggVerify
  \/ MerkleNew
  \/ GenerateProof
  \/ VerifyProof
  \/ Inverse
  \/ Pow
  \/ ModSub
  \/ ModPow
  \/ LegendreSymbols
  \/ HashTwo
  \/ AggregateAny
  \/ AggVerifyForged

Spec == Init /\ [][Next]_vars

\* ================================================================== claims
\* C1: for every sk in [1, P-1] and every message M, Loquat::sign(sk, M)
\* completes and returns a signature, and Loquat::verify on Digest(sk), M and
\* that signature returns true.
C1_SignCompletesAndVerifies ==
  /\ (op = "sign" => ~signature.panic)
  /\ (op = "verify" /\ vmsg = message => ret = "true")

\* C2: verifying sign(sk, M) under the signer's public key on a message M2
\* whose reduced digest differs from that of M returns false, unless the
\* Merkle combine collides on the two pairs of leaves involved.
C2_OtherMessageRejected ==
  (op = "verify" /\ message_u128(vmsg) # message_u128(message))
    => \/ ret = "false"
       \/ \E s \in 0..(P - 1) :
            /\ hash_two(s, message_u128(vmsg)) = signature.merkle_root
            /\ to_bytes_be(s) \o to_bytes_be(message_u128(vmsg))
                 = to_bytes_be(signature.sigma) \o to_bytes_be(message_u128(message))

\* C3: Loquat::verify returns a boolean for every public key, message and
\* signature, and never aborts.
C3_VerifyNeverAborts ==
  op \in {"verify", "verifyForged"} => ret \in {"true", "false"}

\* C4: LegendrePRF::evaluate on an input with (secretKey + x) = 0 mod P hands
\* a recoverable error to its caller and does not abort.
C4_EvaluateUndefinedIsRecoverable ==
  (op = "evaluate" /\ (with_key(prf.key) + prf.x) % P = 0) => ~prf.panic

\* C5: for every non-empty ring, secret key, message and signer index, ring
\* sign completes and ring verify on the same ring and message and on the
\* signature returned is true.
C5_RingSignVerifies ==
  /\ (op = "ringSign" /\ ring # <<>> => ~ringSig.panic)
  /\ (op = "ringVerify" /\ vmsg = message => ret = "true")

\* C5 witness: a two-member ring signed at its second position was verified
\* on the signed message, and accepted.
C5_Witness ==
  /\ op = "ringVerify" /\ vmsg = message /\ Len(ring) >= 2 /\ signer_index > 0
  /\ ringSig.sigma > 0 /\ ret = "true"

\* C6: ring verify of a ring signature on a message whose digest differs from
\* that of the signed message returns false.
C6_RingOtherMessageRejected ==
  (op = "ringVerify" /\ Hash_compute(vmsg) # Hash_compute(message))
    => ret = "false"

\* C7: ring verify returns a boolean and never aborts, for every list of
\* public keys, the empty list included.
C7_RingVerifyNeverAborts ==
  op \in {"ringVerify", "ringVerifyForged"} => ret \in {"true", "false"}

\* C8: aggregate verify on the signers' public keys, their messages and the
\* aggregate of their signatures returns true.
C8_AggregateVerifies ==
  (op = "aggVerify" /\ Len(signed) >= 1 /\ vkeys = signed_keys
     /\ vmsgs = signed_messages)
    => ret = "true"

\* The positions at which two lists of equal length differ.
Differing(a, b) == {i \in 1..Len(a) : a[i] # b[i]}

\* C9: aggregate verify with the signers' public keys and their messages, one
\* of them replaced by a message of another reduced digest, returns false.
C9_AggregateOtherMessageRejected ==
  (op = "aggVerify" /\ vkeys = signed_keys /\ Len(vmsgs) = Len(signed)
     /\ Cardinality(Differing(vmsgs, signed_messages)) = 1
     /\ \A i \in Differing(vmsgs, signed_messages) :
          message_u128(vmsgs[i]) # message_u128(signed[i].message))
    => ret = "false"

\* C10: aggregate verify returns false whenever the public keys and the
\* messages differ in number, before any message digest is computed.
C10_LengthMismatchRejected ==
  (op = "aggVerify" /\ Len(vkeys) # Len(vmsgs))
    => (ret = "false" /\ digests = 0)

\* C10 witness: aggregate verify was called with more public keys than
\* messages, with a message to digest, and rejected.
C10_Witness ==
  /\ op = "aggVerify" /\ Len(vkeys) > Len(vmsgs) /\ Len(vmsgs) >= 1
  /\ ret = "false" /\ digests = 0

\* The leaf of the index the proof was generated for.
leaf_of_index == merkle.leaves[merkle.index + 1]

\* C11: for every non-empty leaf list and every index in range,
\* generate_proof returns a proof, and verify_proof on the root, on the leaf
\* of that index and on that proof returns true.
C11_ProofOfLeafVerifies ==
  /\ (op = "generateProof" /\ merkle.index < Len(merkle.leaves)
        => merkle.proof # None)
  /\ (op = "verifyProof" /\ merkle.leaf = leaf_of_index
        /\ merkle.vproof = unwrap(merkle.proof)
        => merkle.ret = "true")

\* C11 witness: the unpaired last leaf of an odd number of leaves, more than
\* three, was verified with its proof, which has one entry, and accepted.
C11_Witness ==
  /\ op = "verifyProof" /\ Len(merkle.leaves) % 2 = 1 /\ Len(merkle.leaves) > 3
  /\ merkle.index = Len(merkle.leaves) - 1 /\ merkle.leaf = leaf_of_index
  /\ merkle.vproof = unwrap(merkle.proof) /\ Len(merkle.vproof) = 1
  /\ merkle.ret = "true"

\* The entries at which the proof verified differs from the proof generated:
\* those with another sibling, and those with the flag inverted.
SiblingReplaced ==
  {k \in 1..Len(merkle.vproof) :
     /\ merkle.vproof[k][1] # unwrap(merkle.proof)[k][1]
     /\ merkle.vproof[k][2] = unwrap(merkle.proof)[k][2]}

FlagInverted ==
  {k \in 1..Len(merkle.vproof) :
     /\ merkle.vproof[k][1] = unwrap(merkle.proof)[k][1]
     /\ merkle.vproof[k][2] # unwrap(merkle.proof)[k][2]}

\* verify_proof was called on the leaf of the proof's index and on the proof
\* with one element changed.
OneElementChanged ==
  /\ op = "verifyProof" /\ merkle.leaf = leaf_of_index
  /\ Cardinality(Differing(merkle.vproof, unwrap(merkle.proof))) = 1
  /\ Cardinality(SiblingReplaced \cup FlagInverted) = 1

\* C12 as stated: for every leaf list, lists with equal leaves included,
\* verify_proof on the leaf of index i and on the proof of i with one
\* sibling replaced by another value, or with one flag inverted, returns false.
C12_AlteredProofRejected ==
  OneElementChanged => merkle.ret = "false"

\* The hash verify_proof has reached before entry k of the proof generated.
hash_before(k) == verify_loop_hash(merkle.leaf, SubSeq(unwrap(merkle.proof), 1, k - 1), 1)

\* The bytes given to the digest are the same for either order of a and b.
Commute(a, b) ==
  to_bytes_be(a) \o to_bytes_be(b) = to_bytes_be(b) \o to_bytes_be(a)

\* C12 amended: verify_proof on the leaf of index i and on the proof of i
\* returns false when one sibling is replaced by another value, and when one
\* flag is inverted at an entry where the byte strings of the hash reached
\* and of the sibling differ with the order they are concatenated in.
C12_AlteredProofRejectedUnlessCommuting ==
  OneElementChanged =>
    \/ merkle.ret = "false"
    \/ \E k \in FlagInverted : Commute(hash_before(k), merkle.vproof[k][1])

\* C12 witness: the flag of an entry above the first was inverted, where the
\* hash reached and the sibling do not commute, and the proof was rejected.
C12_Witness ==
  /\ OneElementChanged /\ merkle.ret = "false"
  /\ \E k \in FlagInverted :
       k > 1 /\ ~Commute(hash_before(k), merkle.vproof[k][1])

\* No two positions of the list hold the same value.
PairwiseDistinct(list) ==
  \A i \in 1..Len(list), j \in 1..Len(list) : i # j => list[i] # list[j]

\* C13: in a tree of pairwise distinct leaves, verify_proof on the proof
\* generated for index i and on another leaf returns false.
C13_OtherLeafRejected ==
  (op = "verifyProof" /\ PairwiseDistinct(merkle.leaves)
     /\ merkle.vproof = unwrap(merkle.proof) /\ merkle.leaf # leaf_of_index)
    => merkle.ret = "false"

\* C13 witness: in a tree of MaxLeaves distinct leaves, the proof of one leaf
\* was verified with another leaf, and rejected.
C13_Witness ==
  /\ op = "verifyProof" /\ PairwiseDistinct(merkle.leaves)
  /\ Len(merkle.leaves) = MaxLeaves
  /\ merkle.vproof = unwrap(merkle.proof) /\ merkle.leaf # leaf_of_index
  /\ merkle.ret = "false"

\* C14: for every element a that is not 0 mod P, FieldElement::inverse
\* completes and returns Some(x) with x in [0, P) and a * x = 1 mod P.
C14_InverseOfNonZero ==
  (op = "inverse" /\ field.a % P # 0)
    => /\ ~field.panic
       /\ field.out # None
       /\ unwrap(field.out) \in 0..(P - 1)
       /\ (field.a * unwrap(field.out)) % P = 1

\* C15: FieldElement::inverse on an element built from an input that is
\* 0 mod P returns None and does not abort.
C15_InverseOfZeroIsNone ==
  (op = "inverse" /\ field.a % P = 0) => (~field.panic /\ field.out = None)

\* C15 witness: the inverse of the element built from 2 * P was asked for,
\* and None came back.
C15_Witness ==
  /\ op = "inverse" /\ field.a = 2 * P /\ ~field.panic /\ field.out = None

\* C16: for all words a, b and every modulus m > 0, mod_sub(a, b, m) of
\* field_operations.rs returns (a - b) mod m, a value in [0, m).
C16_ModSubIsModularDifference ==
  (op = "modSub" /\ field.modulus > 0)
    => /\ ~field.panic
       /\ field.out = Some(((field.a % field.modulus) + field.modulus
                              - (field.b % field.modulus)) % field.modulus)

\* a^e mod P by e multiplications.
RECURSIVE power(_, _)
power(a, e) == IF e = 0 THEN 1 ELSE (a * power(a, e - 1)) % P

\* C17: for every element a and every exponent e, FieldElement::pow(a, e),
\* and mod_pow(a, e, P), equal a^e mod P by repeated multiplication; the
\* power of exponent 0 is 1, of a = 0 too.
C17_PowIsRepeatedMultiplication ==
  /\ (op = "pow" => field.out = Some(power(field.a % P, field.b)))
  /\ (op = "modPow" /\ field.modulus = P
        => (~field.panic /\ field.out = Some(power(field.a % P, field.b))))

\* C17 witness: the zero element, built from P, was raised to the exponent
\* 0, and the result is 1.
C17_Witness ==
  /\ op = "pow" /\ field.a = P /\ field.b = 0 /\ field.out = Some(1)

\* k is the square of a nonzero element of the field.
QuadraticResidue(k) == \E y \in 1..(P - 1) : (y * y) % P = k

\* C18: for every word a, legendre_symbol(a) is 0 exactly when a = 0 mod P,
\* 1 when a is a nonzero quadratic residue mod P, and -1 otherwise.
C18_LegendreSymbolOfWord ==
  op = "legendreSymbols"
    => /\ (symbols.sa = 0 <=> symbols.a % P = 0)
       /\ (symbols.a % P # 0 /\ QuadraticResidue(symbols.a % P) => symbols.sa = 1)
       /\ (symbols.a % P # 0 /\ ~QuadraticResidue(symbols.a % P) => symbols.sa = -1)

\* C19: for all a, b in [1, P-1], the product of the Legendre symbols of a
\* and of b is the Legendre symbol of a * b mod P.
C19_LegendreSymbolMultiplicative ==
  (op = "legendreSymbols" /\ symbols.a \in 1..(P - 1) /\ symbols.b \in 1..(P - 1))
    => symbols.sa * symbols.sb = symbols.sab

\* C19 witness: the symbols of a non-residue and of a residue were computed,
\* and the symbol of their product is -1.
C19_Witness ==
  /\ op = "legendreSymbols" /\ symbols.a \in 1..(P - 1) /\ symbols.b \in 1..(P - 1)
  /\ symbols.sa = -1 /\ symbols.sb = 1 /\ symbols.sab = -1

\* C20: the bit evaluate returns is a function of the key and of x: it is 0
\* when (secretKey + x) mod P is a nonzero quadratic residue and 1 when it
\* is a non-residue, and on these inputs evaluate completes.
C20_EvaluateIsResidueBit ==
  (op = "evaluate" /\ (prf.key + prf.x) % P # 0)
    => /\ ~prf.panic
       /\ prf.bit = IF QuadraticResidue((prf.key + prf.x) % P) THEN 0 ELSE 1

\* C20 witness: a key above P and an input x that is not 0 mod P sum to a
\* non-residue, and the bit is 1.
C20_Witness ==
  /\ op = "evaluate" /\ prf.key > P /\ prf.x % P # 0
  /\ ~QuadraticResidue((prf.key + prf.x) % P) /\ (prf.key + prf.x) % P # 0
  /\ ~prf.panic /\ prf.bit = 1

\* The root of the two-leaf tree over a and b.
root_of_pair(a, b) == unwrap(root(MerkleTree_new(<<a, b>>)))

\* C21: whenever Loquat::verify returns true, the signature's merkle_root is
\* the root of the two-leaf tree over the signature's sigma mod P and the
\* reduced digest of the message.
C21_AcceptedRootCommitsToSigma ==
  (op \in {"verify", "verifyForged"} /\ ret = "true")
    => signature.merkle_root = root_of_pair(signature.sigma % P, message_u128(vmsg))

\* C22: sigma and merkle_root returned by Loquat::sign, and sigma,
\* ring_commitment and challenge returned by ring sign on a non-empty ring,
\* lie in [0, P).
C22_OutputsAreFieldElements ==
  /\ (op = "sign" /\ ~signature.panic
        => /\ signature.sigma \in 0..(P - 1)
           /\ signature.merkle_root \in 0..(P - 1))
  /\ (op = "ringSign" /\ ring # <<>>
        => /\ ringSig.sigma \in 0..(P - 1)
           /\ ringSig.ring_commitment \in 0..(P - 1)
           /\ ringSig.challenge \in 0..(P - 1))

\* C23: the bytes hash_two gives to the digest determine the ordered pair of
\* operands: every other pair of words gives other bytes.
C23_CombineInputDeterminesPair ==
  op = "hashTwo"
    => \A c \in 0..WordMax, d \in 0..WordMax :
         <<c, d>> # <<combine.a, combine.b>> => hash_two_data(c, d) # combine.data

\* The number of layers above a layer of n >= 1 elements, that layer included.
RECURSIVE layers_over(_)
layers_over(n) == IF n <= 1 THEN 1 ELSE 1 + layers_over((n + 1) \div 2)

\* C24: for n >= 1 leaves MerkleTree::new gives the leaves as first layer,
\* each further layer of length ceil(len/2) with element j the combination of
\* elements 2j and 2j+1 of the layer below when both exist and element 2j
\* itself when it is unpaired, and a last layer of one element; the root of a
\* single leaf is that leaf, with no layer above it.
C24_LayersOfTree ==
  (op = "merkleNew" /\ Len(merkle.leaves) >= 1)
    => /\ Len(merkle.tree) = layers_over(Len(merkle.leaves))
       /\ merkle.tree[1] = merkle.leaves
       /\ \A l \in 2..Len(merkle.tree) :
            /\ 2 * Len(merkle.tree[l]) \in {Len(merkle.tree[l - 1]),
                                             Len(merkle.tree[l - 1]) + 1}
            /\ \A j \in 1..Len(merkle.tree[l]) :
                 merkle.tree[l][j] =
                   IF 2 * j <= Len(merkle.tree[l - 1])
                   THEN hash_two(merkle.tree[l - 1][2 * j - 1], merkle.tree[l - 1][2 * j])
                   ELSE merkle.tree[l - 1][2 * j - 1]
       /\ Len(merkle.tree[Len(merkle.tree)]) = 1
       /\ merkle.root = Some(merkle.tree[Len(merkle.tree)][1])
       /\ (Len(merkle.leaves) = 1
             => Len(merkle.tree) = 1 /\ merkle.root = Some(merkle.leaves[1]))

\* C24 witness: a tree over an odd number of leaves, more than three, whose
\* last leaf is carried up to the layer below the root.
C24_Witness ==
  /\ op = "merkleNew" /\ Len(merkle.leaves) % 2 = 1 /\ Len(merkle.leaves) > 3
  /\ Len(merkle.tree) > 3
  /\ merkle.tree[Len(merkle.tree) - 1][2] = merkle.leaves[Len(merkle.leaves)]
  /\ merkle.root # None

\* C25: on the tree of an empty leaf list root() is None and generate_proof
\* is None for every index; on a tree of n >= 1 leaves generate_proof(i) is
\* None exactly when i >= n.
C25_NoneOutOfRange ==
  /\ (op = "merkleNew" /\ merkle.leaves = <<>> => merkle.root = None)
  /\ (op = "generateProof"
        => (merkle.proof = None <=> merkle.index >= Len(merkle.leaves)))

\* C25 witness: generate_proof was asked for index 0 of the tree of an empty
\* leaf list, whose root is None, and returned None.
C25_Witness ==
  /\ op = "generateProof" /\ merkle.leaves = <<>> /\ merkle.index = 0
  /\ merkle.root = None /\ merkle.proof = None

\* The two candidate secret keys of a signature value sigma on digest m.
candidate_minus(sigma, m) == ((sigma % P) + P - m) % P

candidate_plus(sigma, m) == ((sigma % P) + m) % P

\* The sigma a key holder of secret key k computes on digest m: k + m when
\* k + m is a non-residue (the PRF bit is 1), k - m otherwise.
sigma_expected(k, m) ==
  IF (k + m) % P # 0 /\ ~QuadraticResidue((k + m) % P) THEN (k + m) % P
  ELSE (k + P - m) % P

\* The acceptance condition of C26 on the inputs of the last verify call.
AcceptanceCondition ==
  LET m == message_u128(vmsg)
      sk1 == candidate_minus(signature.sigma, m)
      sk2 == candidate_plus(signature.sigma, m)
      matches1 == public_key_of(sk1) = vpk
      matches2 == public_key_of(sk2) = vpk
      sk_expected == IF matches1 THEN sk1 ELSE sk2
  IN  /\ (matches1 \/ matches2)
      /\ root_of_pair(sigma_expected(sk_expected, m), m) = signature.merkle_root

\* C26: Loquat::verify returns true if and only if one of the candidates
\* (sigma - m) mod P, (sigma + m) mod P has the public key as digest and the
\* root of the tree over the sigma expected of the matching candidate (the
\* first when both match) and m is the signature's merkle_root; when no
\* candidate matches it returns false.
C26_VerifyAcceptsExactly ==
  op \in {"verify", "verifyForged"}
    => /\ (ret = "true" <=> AcceptanceCondition)
       /\ (/\ public_key_of(candidate_minus(signature.sigma, message_u128(vmsg))) # vpk
           /\ public_key_of(candidate_plus(signature.sigma, message_u128(vmsg))) # vpk
           => ret = "false")

\* C27: when evaluate is defined, Loquat::sign returns sigma = (sk + m) mod P
\* if the PRF bit is 1 and (sk - m) mod P if it is 0, and merkle_root the root
\* of the tree over sigma and m; no intermediate sum leaves the machine word.
C27_SignFormula ==
  (op = "sign" /\ ~signature.panic)
    => /\ signature.sigma =
            IF evaluate(with_key(sk), message_u128(message)).bit = 1
            THEN (sk + message_u128(message)) % P
            ELSE (sk + P - message_u128(message)) % P
       /\ signature.merkle_root = root_of_pair(signature.sigma, message_u128(message))
       /\ ~signature.overflow

\* C27 witness: a key below the digest of the message signed it with PRF bit
\* 0, and sigma is sk + P - m.
C27_Witness ==
  /\ op = "sign" /\ ~signature.panic /\ sk < message_u128(message)
  /\ evaluate(with_key(sk), message_u128(message)).bit = 0
  /\ signature.sigma = sk + P - message_u128(message)
  /\ ~signature.overflow

\* C28: on a non-empty list of public keys, ring verify returns true if and
\* only if the root of the tree over the keys, in the order given, is the
\* signature's ring_commitment and sigma < P, whatever the message and
\* whoever made sigma.
C28_RingVerifyAcceptsExactly ==
  (op \in {"ringVerify", "ringVerifyForged"} /\ ring # <<>>)
    => (ret = "true"
          <=> /\ root(MerkleTree_new(ring_leaves(ring))) = Some(ringSig.ring_commitment)
              /\ ringSig.sigma < P)

\* C28 witness: a ring signature with the commitment of the ring given and
\* sigma = P, made by no signer, was rejected.
C28_Witness ==
  /\ op = "ringVerifyForged" /\ ring # <<>> /\ ringSig.sigma = P
  /\ root(MerkleTree_new(ring_leaves(ring))) = Some(ringSig.ring_commitment)
  /\ ret = "false"

\* The sum of the reduced digests of the messages, and of the sigma values of
\* the signatures.
RECURSIVE digest_sum(_)
digest_sum(msgs) ==
  IF msgs = <<>> THEN 0 ELSE message_u128(Head(msgs)) + digest_sum(Tail(msgs))

RECURSIVE sigma_sum(_)
sigma_sum(sigs) ==
  IF sigs = <<>> THEN 0 ELSE Head(sigs).sigma + sigma_sum(Tail(sigs))

\* C29 as stated: on as many public keys as messages, aggregate verify
\* returns true if and only if the sum of the messages' reduced digests mod P
\* equals aggregated_sigma, whatever the keys and the challenge; and
\* aggregate sets aggregated_sigma to the sum of the sigma values mod P.
C29_AggregateVerifyAcceptsExactly ==
  /\ (op \in {"aggVerify", "aggVerifyForged"} /\ Len(vkeys) = Len(vmsgs)
        => (ret = "true" <=> digest_sum(vmsgs) % P = aggSig.aggregated_sigma))
  /\ (op \in {"aggregate", "aggregateAny"}
        => aggSig.aggregated_sigma = sigma_sum(signed) % P)

\* C29 amended: aggregate verify returns true if and only if the sum of the
\* messages' reduced digests mod P equals aggregated_sigma reduced mod P,
\* whatever the keys and the challenge; and aggregate sets aggregated_sigma
\* to the sum of the sigma values mod P.
C29_AggregateVerifyAcceptsModP ==
  /\ (op \in {"aggVerify", "aggVerifyForged"} /\ Len(vkeys) = Len(vmsgs)
        => (ret = "true" <=> digest_sum(vmsgs) % P = aggSig.aggregated_sigma % P))
  /\ (op \in {"aggregate", "aggregateAny"}
        => aggSig.aggregated_sigma = sigma_sum(signed) % P)

\* C29 witness: an aggregate signature with aggregated_sigma above P, given
\* with three messages whose first two digests already sum past P and with
\* public keys that are no digests, was accepted.
C29_Witness ==
  /\ op = "aggVerifyForged" /\ Len(vmsgs) >= 3 /\ Len(vkeys) = Len(vmsgs)
  /\ vkeys[1] = <<>> /\ aggSig.aggregated_sigma >= P
  /\ message_u128(vmsgs[1]) + message_u128(vmsgs[2]) > P
  /\ digest_sum(vmsgs) % P = aggSig.aggregated_sigma % P
  /\ ret = "true"

\* C30: the secret key that signed is one of (sigma - m) mod P and
\* (sigma + m) mod P, computed from the signature and the message, and the
\* digest of that candidate is the public key.
C30_SecretKeyAmongCandidates ==
  (op = "sign" /\ ~signature.panic)
    => \E candidate \in {candidate_minus(signature.sigma, message_u128(message)),
                         candidate_plus(signature.sigma, message_u128(message))} :
         candidate = sk /\ public_key_of(candidate) = pk

\* C30 witness: a signature whose second candidate, and not the first, is
\* the secret key, with the public key as its digest.
C30_Witness ==
  /\ op = "sign" /\ ~signature.panic
  /\ candidate_plus(signature.sigma, message_u128(message)) = sk
  /\ candidate_minus(signature.sigma, message_u128(message)) # sk
  /\ public_key_of(candidate_plus(signature.sigma, message_u128(message))) = pk

====
